---- MODULE Spec2Model ----
(***************************************************************************)
(* The statement-level unparser of unrpyc (decompiler/__init__.py): the    *)
(* Decompiler object, its dispatch over Ren'Py AST nodes and ATL nodes,    *)
(* and the traversal of nested blocks, as a stack machine.                 *)
(*                                                                         *)
(* Output is a sequence of lines; a line is [ind, toks]: the indentation   *)
(* depth written by indent() and the texts of the write() calls that       *)
(* followed it, one token per call.  Line 1 is the text written before the *)
(* first indent().  advance_to_line() (blank lines between statements,     *)
(* driven only by recorded line numbers) is not part of the output model.  *)
(***************************************************************************)
EXTENDS Integers, Sequences, FiniteSets, TLC

VARIABLES
    self,    \* the Decompiler object (fields of Decompiler and DecompilerBase)
    stack,   \* the call stack of print_nodes / print_atl / handler loops
    pc,      \* "run" | "done" | "error"
    err,     \* the exception that ended the render, when pc = "error"
    tree,    \* the block handed to dump (immutable input)
    twin,    \* a structurally equal block handed to a second Decompiler
    run,     \* 1 for the render of tree, 2 for the render of twin
    prev     \* the output of the first render, once a second one has started

vars == <<self, stack, pc, err, tree, twin, run, prev>>

-----------------------------------------------------------------------------
(* Values *)

\* Python's None where a string is expected
NONE == "<None>"

\* self.paired_with is False, True, or the paired expression (a string)
PW_False == [tag |-> "False", val |-> NONE]
PW_True == [tag |-> "True", val |-> NONE]
PW_Str(e) == [tag |-> "str", val |-> e]

\* Python truth of self.paired_with (expressions are non-empty strings)
Truthy(pw) == pw.tag # "False"

\* "%s" % self.paired_with
Fmt(pw) == IF pw.tag = "str" THEN pw.val ELSE pw.tag

\* sep.join(seq)
RECURSIVE Join(_, _)
Join(seq, sep) ==
    IF Len(seq) = 0 THEN ""
    ELSE IF Len(seq) = 1 THEN seq[1]
    ELSE seq[1] \o sep \o Join(Tail(seq), sep)

\* s[-1] == ' ' for the expression texts the inputs use
SpaceEnded == {"left "}
EndsWithSpace(e) == e \in SpaceEnded

-----------------------------------------------------------------------------
(* DecompilerBase: the output cursor *)

write(s, text) ==
    LET n == Len(s.out)
    IN  [s EXCEPT !.out[n].toks = Append(@, text),
                  !.skip_indent_until_write = FALSE]

indent(s) ==
    IF s.skip_indent_until_write THEN s
    ELSE [s EXCEPT !.out = Append(@, [ind |-> s.indent_level, toks |-> <<>>])]

\* write("\n"): the text ends the current line
write_newline(s) ==
    [s EXCEPT !.out = Append(@, [ind |-> 0, toks |-> <<>>]),
              !.skip_indent_until_write = FALSE]

BANNER == "# Decompiled by unrpyc (https://github.com/CensoredUsername/unrpyc"

\* Decompiler.__init__ followed by the head of dump()
NewDecompiler(comparable, indent_level) ==
    LET s0 == [out |-> << [ind |-> 0, toks |-> <<>>] >>,
               indent_level |-> indent_level,
               skip_indent_until_write |-> FALSE,
               comparable |-> comparable,
               paired_with |-> PW_False,
               say_inside_menu |-> <<>>]
        s1 == IF ~comparable THEN write(s0, BANNER) ELSE s0
    IN  [s1 EXCEPT !.skip_indent_until_write = comparable]

-----------------------------------------------------------------------------
(* Stack frames *)

\* Every frame records in "depth" the indentation depth its code runs at.

\* print_nodes(ast, extra_indent): block_stack / index_stack entry
NodesFrame(blk, extra, depth) ==
    [kind |-> "nodes", block |-> blk, index |-> 0, extra |-> extra, depth |-> depth]

\* print_atl after print_nodes(ast.statements) returns
AtlFrame(depth) == [kind |-> "atl", depth |-> depth]

\* a handler loop over nested blocks: the items, and the position in them
LoopFrame(what, items, depth) ==
    [kind |-> "loop", what |-> what, items |-> items, i |-> 0, first |-> TRUE,
     depth |-> depth]

Top(stk) == stk[Len(stk)]
Pop(stk) == SubSeq(stk, 1, Len(stk) - 1)
Push(stk, f) == Append(stk, f)

\* the handler of the current node returned: print_nodes moves to the next node
Resume(stk) ==
    IF Len(stk) > 0 /\ Top(stk).kind = "nodes"
    THEN [stk EXCEPT ![Len(stk)].index = @ + 1]
    ELSE stk

AtNode == pc = "run" /\ Len(stack) > 0 /\ Top(stack).kind = "nodes"
            /\ Top(stack).index < Len(Top(stack).block)
block == Top(stack).block
index == Top(stack).index
\* self.block[self.index] (0-based index)
ast == block[index + 1]

\* what a handler leaves behind: the object, the stack, and the exception raised
Ok(s, stk) == [s |-> s, stk |-> stk, exc |-> <<>>]
Raise(s, stk, e) == [s |-> s, stk |-> stk, exc |-> <<e>>]

\* repr() of a value that is None or a unicode string
Repr(e) == IF e = NONE THEN "None" ELSE "u'" \o e \o "'"
ReprPW(pw) == IF pw.tag = "str" THEN Repr(pw.val) ELSE pw.tag

-----------------------------------------------------------------------------
(* ATL blocks *)

\* the loc of a RawBlock whose statement had a colon and no block
EMPTY_LOC == <<"", 0>>

\* print_atl without the test of the empty-block location
print_atl_always_pass(s, stk, a) ==
    LET s1 == [s EXCEPT !.indent_level = @ + 1]
    IN  IF Len(a.statements) > 0
        THEN Ok(s1, Push(Push(stk, AtlFrame(s1.indent_level)),
                         NodesFrame(a.statements, 0, s1.indent_level)))
        ELSE Ok([write(indent(s1), "pass") EXCEPT !.indent_level = @ - 1], Resume(stk))

print_atl(s, stk, a) ==
    LET s1 == [s EXCEPT !.indent_level = @ + 1]
    IN  IF Len(a.statements) > 0
        THEN Ok(s1, Push(Push(stk, AtlFrame(s1.indent_level)),
                         NodesFrame(a.statements, 0, s1.indent_level)))
        ELSE LET s2 == IF ~s.comparable \/ a.loc # EMPTY_LOC
                       THEN write(indent(s1), "pass")
                       ELSE s1
             IN  Ok([s2 EXCEPT !.indent_level = @ - 1], Resume(stk))

\* "if hasattr(ast, 'atl') and ast.atl is not None": the tail of several handlers
print_atl_tail(s, stk, node) ==
    IF node.atl # <<>>
    THEN print_atl(write(s, ":"), stk, node.atl[1])
    ELSE Ok(s, Resume(stk))

-----------------------------------------------------------------------------
(* Displayable related functions *)

print_imspec(s, imspec) ==
    LET s1 == IF imspec.expression # NONE
              THEN write(s, "expression " \o imspec.expression)
              ELSE write(s, Join(imspec.name, " "))
        s2 == IF imspec.tag # NONE THEN write(s1, " as " \o imspec.tag) ELSE s1
        s3 == IF Len(imspec.behind) > 0
              THEN write(s2, " behind " \o Join(imspec.behind, ", "))
              ELSE s2
        s4 == IF imspec.layer # "master"
              THEN write(s3, " onlayer " \o imspec.layer)
              ELSE s3
        s5 == IF imspec.zorder # NONE THEN write(s4, " zorder " \o imspec.zorder) ELSE s4
    IN  IF Len(imspec.at_list) > 0
        THEN [s |-> write(s5, " at " \o Join(imspec.at_list, ", ")),
              rv |-> EndsWithSpace(imspec.at_list[Len(imspec.at_list)])]
        ELSE [s |-> s5, rv |-> FALSE]

\* the inline with clause written, the register left as it was
consume_paired_with_keeps(s, needs_space) ==
    IF Truthy(s.paired_with)
    THEN LET s1 == IF needs_space THEN write(s, " ") ELSE s
         IN  write(s1, "with " \o Fmt(s.paired_with))
    ELSE s

\* "if self.paired_with:" of print_show and print_scene
consume_paired_with(s, needs_space) ==
    IF Truthy(s.paired_with)
    THEN LET s1 == IF needs_space THEN write(s, " ") ELSE s
             s2 == write(s1, "with " \o Fmt(s.paired_with))
         IN  [s2 EXCEPT !.paired_with = PW_True]
    ELSE s

print_show(s, stk, node) ==
    LET r == print_imspec(write(indent(s), "show "), node.imspec)
        s1 == consume_paired_with(r.s, ~r.rv)
    IN  print_atl_tail(s1, stk, node)

print_showlayer(s, stk, node) ==
    LET s1 == write(indent(s), "show layer " \o node.layer)
        s2 == IF Len(node.at_list) > 0
              THEN write(s1, " at " \o Join(node.at_list, ", "))
              ELSE s1
    IN  print_atl_tail(s2, stk, node)

\* print_scene without the pairing register, as print_hide is
print_scene_no_with(s, stk, node) ==
    LET s1 == write(indent(s), "scene")
        r == IF node.imspec = <<>>
             THEN [s |-> IF node.layer # "master"
                         THEN write(s1, " onlayer " \o node.layer)
                         ELSE s1,
                   rv |-> FALSE]
             ELSE print_imspec(write(s1, " "), node.imspec[1])
    IN  print_atl_tail(r.s, stk, node)

print_scene(s, stk, node) ==
    LET s1 == write(indent(s), "scene")
        r == IF node.imspec = <<>>
             THEN [s |-> IF node.layer # "master"
                         THEN write(s1, " onlayer " \o node.layer)
                         ELSE s1,
                   rv |-> FALSE]
             ELSE print_imspec(write(s1, " "), node.imspec[1])
        s2 == consume_paired_with(r.s, ~r.rv)
    IN  print_atl_tail(s2, stk, node)

print_hide(s, stk, node) ==
    LET r == print_imspec(write(indent(s), "hide "), node.imspec)
    IN  Ok(r.s, Resume(stk))

\* the sanity check of a paired with: the node two places further on
matching_with(blk, idx, node) ==
    blk[idx + 2 + 1].kind = "With" /\ blk[idx + 2 + 1].expr = node.paired

\* print_with that arms the register without clearing it at an unpaired with
\* that follows a consumed one
print_with_no_reset(s, stk, node) ==
    LET blk == Top(stk).block
        idx == Top(stk).index
    IN  IF node.paired # NONE
        THEN IF idx + 2 >= Len(blk)
             THEN Raise(s, stk, [type |-> "IndexError", args |-> <<>>])
             ELSE IF ~(blk[idx + 3].kind = "With" /\ blk[idx + 3].expr = node.paired)
             THEN Raise(s, stk, [type |-> "Exception",
                                 args |-> <<ReprPW(s.paired_with), Repr(node.expr)>>])
             ELSE Ok([s EXCEPT !.paired_with = PW_Str(node.paired)], Resume(stk))
        ELSE IF Truthy(s.paired_with)
        THEN IF s.paired_with # PW_True
             THEN Ok([write(s, " with " \o node.expr) EXCEPT !.paired_with = PW_False],
                     Resume(stk))
             ELSE Ok(s, Resume(stk))
        ELSE LET s1 == write(indent(s), "with " \o node.expr)
             IN  Ok([s1 EXCEPT !.paired_with = PW_False], Resume(stk))

print_with(s, stk, node) ==
    LET blk == Top(stk).block
        idx == Top(stk).index
    IN  IF node.paired # NONE
        THEN IF idx + 2 >= Len(blk)
             THEN Raise(s, stk, [type |-> "IndexError", args |-> <<>>])
             ELSE IF ~matching_with(blk, idx, node)
             THEN Raise(s, stk, [type |-> "Exception",
                                 args |-> <<ReprPW(s.paired_with), Repr(node.expr)>>])
             ELSE Ok([s EXCEPT !.paired_with = PW_Str(node.paired)], Resume(stk))
        ELSE IF Truthy(s.paired_with)
        THEN LET s1 == IF s.paired_with # PW_True
                       THEN write(s, " with " \o node.expr)
                       ELSE s
             IN  Ok([s1 EXCEPT !.paired_with = PW_False], Resume(stk))
        ELSE LET s1 == write(indent(s), "with " \o node.expr)
             IN  Ok([s1 EXCEPT !.paired_with = PW_False], Resume(stk))

-----------------------------------------------------------------------------
(* print_nodes and the handlers with nested blocks *)

\* DecompilerBase.print_nodes(ast, extra_indent), up to its loop
print_nodes(s, stk, blk, extra) ==
    Ok([s EXCEPT !.indent_level = @ + extra],
       Push(stk, NodesFrame(blk, extra, s.indent_level + extra)))

\* condition.strip() for the condition texts the inputs use
Strip(c) == IF c = " True " THEN "True" ELSE c

\* util.string_escape for the texts the inputs use (none holds a character to escape)
string_escape(t) == t

\* one entry of print_if: the frame's "first" is the state of First("if", "elif")
if_entry(s, stk, f, it) ==
    LET is_else == (f.i + 1) = Len(f.items) /\ Strip(it.condition) = "True"
        n == Len(stk)
        s1 == indent(s)
        s2 == IF is_else
              THEN write(s1, "else:")
              ELSE write(s1, (IF f.first THEN "if " ELSE "elif ") \o it.condition \o ":")
        stk1 == [stk EXCEPT ![n].i = @ + 1,
                            ![n].first = IF is_else THEN @ ELSE FALSE]
    IN  print_nodes(s2, stk1, it.block, 1)

\* the header an ATL handler writes before each nested block
atl_header(what, it) ==
    CASE what = "contains" -> <<"contains:">>
      [] what = "choice" ->
            IF it.chance # "1.0"
            THEN <<"choice", " " \o it.chance, ":">>
            ELSE <<"choice", ":">>
      [] what = "on" -> <<"on " \o it.name \o ":">>
      [] what = "parallel" -> <<"parallel:">>

RECURSIVE write_all(_, _)
write_all(s, texts) ==
    IF Len(texts) = 0 THEN s ELSE write_all(write(s, Head(texts)), Tail(texts))

\* The loop of a handler over its nested blocks, from the frame's position up
\* to the next nested block that has statements to print, or to the handler's
\* return.
RECURSIVE loop_run(_, _)
loop_run(s, stk) ==
    LET f == Top(stk)
        n == Len(stk)
    IN  IF f.i = Len(f.items)
        THEN IF f.what = "menu"
             THEN Ok([s EXCEPT !.indent_level = @ - 1], Resume(Pop(stk)))
             ELSE Ok(s, Resume(Pop(stk)))
        ELSE LET it == f.items[f.i + 1]
                 stk1 == [stk EXCEPT ![n].i = @ + 1]
             IN  IF f.what = "if" THEN if_entry(s, stk, f, it)
                 ELSE IF f.what = "menu"
                 THEN LET s1 == write(indent(s), "\"" \o string_escape(it.label) \o "\"")
                      IN  IF it.block # <<>>
                          THEN LET s2 == IF it.condition # "True"
                                         THEN write(s1, " if " \o it.condition)
                                         ELSE s1
                               IN  print_nodes(write(s2, ":"), stk1, it.block[1], 1)
                          ELSE loop_run(s1, stk1)
                 ELSE LET s1 == write_all(indent(s), atl_header(f.what, it))
                          r == print_atl(s1, stk1, it.block)
                      IN  IF Top(r.stk).kind = "loop"
                          THEN loop_run(r.s, r.stk)
                          ELSE r

print_if(s, stk, node) ==
    loop_run(s, Push(stk, LoopFrame("if", node.entries, s.indent_level)))

print_while(s, stk, node) ==
    print_nodes(write(indent(s), "while " \o node.condition \o ":"), stk, node.block, 1)

\* util.reconstruct_paraminfo / reconstruct_arginfo for positional names and values;
\* None is <<>>, a ParameterInfo or ArgumentInfo is <<the names or values>>
reconstruct_paraminfo(parameters) ==
    IF parameters = <<>> THEN "" ELSE "(" \o Join(parameters[1], ", ") \o ")"
reconstruct_arginfo(arguments) ==
    IF arguments = <<>> THEN "" ELSE "(" \o Join(arguments[1], ", ") \o ")"

\* "self.index and isinstance(self.block[self.index - 1], renpy.ast.Call)"
after_call(stk) ==
    LET blk == Top(stk).block
        idx == Top(stk).index
    IN  idx # 0 /\ blk[idx].kind = "Call"

\* a label that never takes the "from" form
print_label_always_statement(s, stk, node) ==
    print_nodes(write(indent(s), "label " \o node.name
                                    \o reconstruct_paraminfo(node.parameters) \o ":"),
                stk, node.block, 1)

print_label(s, stk, node) ==
    IF after_call(stk)
    THEN Ok(write(s, " from " \o node.name), Resume(stk))
    ELSE print_nodes(write(indent(s), "label " \o node.name
                                        \o reconstruct_paraminfo(node.parameters) \o ":"),
                     stk, node.block, 1)

print_call(s, stk, node) ==
    LET s1 == write(indent(s), "call ")
        s2 == IF node.expression THEN write(s1, "expression " \o node.label)
              ELSE write(s1, node.label)
        s3 == IF node.arguments # <<>>
              THEN LET s21 == IF node.expression THEN write(s2, " pass ") ELSE s2
                   IN  write(s21, reconstruct_arginfo(node.arguments))
              ELSE s2
    IN  Ok(s3, Resume(stk))

print_pass(s, stk, node) ==
    IF ~after_call(stk)
    THEN Ok(write(indent(s), "pass"), Resume(stk))
    ELSE Ok(s, Resume(stk))

-----------------------------------------------------------------------------
(* ATL printing functions *)

print_atl_rawblock(s, stk, node) ==
    print_atl(write(indent(s), "block:"), stk, node)

print_atl_rawchild(s, stk, node) ==
    loop_run(s, Push(stk, LoopFrame("contains",
        [k \in 1..Len(node.children) |-> [block |-> node.children[k]]],
        s.indent_level)))

print_atl_rawchoice(s, stk, node) ==
    loop_run(s, Push(stk, LoopFrame("choice", node.choices, s.indent_level)))

\* insert item x into the sorted sequence q after every item whose line is not
\* greater: the stable order of sorted(..., key=lambda i: i[1].loc[1])
RECURSIVE insert_sorted(_, _)
insert_sorted(q, x) ==
    IF Len(q) = 0 THEN <<x>>
    ELSE IF x.block.loc[2] < Head(q).block.loc[2] THEN <<x>> \o q
    ELSE <<Head(q)>> \o insert_sorted(Tail(q), x)

RECURSIVE sorted_by_line(_)
sorted_by_line(items) ==
    IF Len(items) = 0 THEN <<>>
    ELSE insert_sorted(sorted_by_line(SubSeq(items, 1, Len(items) - 1)),
                       items[Len(items)])

\* node.handlers is the dict in its storage (iteration) order
events_to_iterate(s, node) ==
    IF s.comparable THEN sorted_by_line(node.handlers) ELSE node.handlers

print_atl_rawon(s, stk, node) ==
    loop_run(s, Push(stk, LoopFrame("on", events_to_iterate(s, node), s.indent_level)))

print_atl_rawparallel(s, stk, node) ==
    loop_run(s, Push(stk, LoopFrame("parallel",
        [k \in 1..Len(node.blocks) |-> [block |-> node.blocks[k]]],
        s.indent_level)))

print_atl_rawrepeat(s, stk, node) ==
    LET s1 == write(indent(s), "repeat")
        s2 == IF node.repeats # NONE THEN write(s1, " " \o node.repeats) ELSE s1
    IN  Ok(s2, Resume(stk))

print_atl_rawtime(s, stk, node) ==
    Ok(write(indent(s), "time " \o node.time), Resume(stk))

-----------------------------------------------------------------------------
(* Declarations and init blocks *)

print_image(s, stk, node) ==
    LET s1 == write(indent(s), "image " \o Join(node.imgname, " "))
    IN  IF node.code # NONE
        THEN Ok(write(s1, " = " \o node.code), Resume(stk))
        ELSE print_atl_tail(s1, stk, node)

print_transform(s, stk, node) ==
    LET s1 == write(indent(s), "transform " \o node.varname)
        s2 == IF node.parameters # NONE THEN write(s1, node.parameters) ELSE s1
    IN  print_atl_tail(s2, stk, node)

print_define(s, stk, node) ==
    LET s1 == indent(s)
    IN  IF node.store = "store"
        THEN Ok(write(s1, "define " \o node.varname \o " = " \o node.code), Resume(stk))
        ELSE Ok(write(s1, "define " \o node.store \o "." \o node.varname
                            \o " = " \o node.code), Resume(stk))

\* the kwargs list of print_style; node.properties is the dict in storage order
style_kwargs(node) ==
    (IF node.parent # NONE THEN <<"is " \o node.parent>> ELSE <<>>)
    \o (IF node.clear THEN <<"clear">> ELSE <<>>)
    \o (IF node.take # NONE THEN <<"take " \o node.take>> ELSE <<>>)
    \o [k \in 1..Len(node.delattr) |-> "del " \o node.delattr[k]]
    \o (IF node.variant # NONE THEN <<"variant " \o node.variant>> ELSE <<>>)
    \o [k \in 1..Len(node.properties) |->
            node.properties[k].key \o " " \o node.properties[k].value]

RECURSIVE write_lines(_, _)
write_lines(s, texts) ==
    IF Len(texts) = 0 THEN s
    ELSE write_lines(write(indent(s), Head(texts)), Tail(texts))

print_style(s, stk, node) ==
    LET s1 == write(indent(s), "style " \o node.style_name)
        kwargs == style_kwargs(node)
    IN  IF s.comparable
        THEN Ok(write(s1, " " \o Join(kwargs, " ")), Resume(stk))
        ELSE LET s2 == [write(s1, ":") EXCEPT !.indent_level = @ + 1]
                 s3 == write_lines(s2, kwargs)
             IN  Ok([s3 EXCEPT !.indent_level = @ - 1], Resume(stk))

\* The screen sub-unparsers are external: what they leave in this object is
\* the screen's text and a cleared skip_indent_until_write.
print_screen(s, stk, node) ==
    LET s1 == write(indent(s), "screen " \o node.name \o ":")
    IN  Ok([s1 EXCEPT !.skip_indent_until_write = FALSE], Resume(stk))

\* the comparison of should_come_before turned round
should_come_after(s, first, second) ==
    s.comparable /\ first.linenumber > second.linenumber

should_come_before(s, first, second) ==
    s.comparable /\ first.linenumber < second.linenumber

\* the test of print_init for an implicit init block
implicit_init(s, node) ==
    /\ Len(node.block) = 1
    /\ \/ node.priority = -500 /\ node.block[1].kind = "Screen"
       \/ node.priority = 0 /\ node.block[1].kind \in {"Define", "Transform", "Style"}
       \/ node.priority = 990 /\ node.block[1].kind = "Image"
    /\ ~should_come_before(s, node, node.block[1])

\* the test of print_init for a block of translatestring statements
translatestring_init(node) ==
    /\ Len(node.block) > 0
    /\ node.priority = 0
    /\ \A k \in 1..Len(node.block) : node.block[k].kind = "TranslateString"
    /\ \A k \in 2..Len(node.block) : node.block[k].language = node.block[1].language

print_init(s, stk, node) ==
    IF implicit_init(s, node) THEN print_nodes(s, stk, node.block, 0)
    ELSE IF translatestring_init(node) THEN print_nodes(s, stk, node.block, 0)
    ELSE LET s1 == write(indent(s), "init")
             s2 == IF node.priority # 0
                   THEN write(s1, " " \o ToString(node.priority))
                   ELSE s1
         IN  IF Len(node.block) = 1 /\ node.linenumber >= node.block[1].linenumber
             THEN print_nodes([write(s2, " ") EXCEPT !.skip_indent_until_write = TRUE],
                              stk, node.block, 0)
             ELSE print_nodes(write(s2, ":"), stk, node.block, 1)

-----------------------------------------------------------------------------
(* Say, menu, python, translations *)

\* the body of print_say once it is not deferred
write_say(s, node, inmenu) ==
    LET s1 == indent(s)
        s2 == IF node.who # NONE THEN write(s1, node.who \o " ") ELSE s1
        s3 == write(s2, "\"" \o string_escape(node.what) \o "\"")
        s4 == IF ~node.interact /\ ~inmenu THEN write(s3, " nointeract") ELSE s3
    IN  IF node.with_ # NONE THEN write(s4, " with " \o node.with_) ELSE s4

\* the test of print_say for a say that the menu after it will print
say_deferred(s, stk, node) ==
    LET blk == Top(stk).block
        idx == Top(stk).index
    IN  /\ ~node.interact
        /\ node.who # NONE
        /\ node.with_ = NONE
        /\ node.attributes = NONE
        /\ idx + 1 < Len(blk)
        /\ LET next_block == blk[idx + 1 + 1]
           IN  /\ next_block.kind = "Menu"
               /\ next_block.items[1].block # <<>>
               /\ ~should_come_before(s, node, next_block)

print_say(s, stk, node) ==
    IF say_deferred(s, stk, node)
    THEN Ok([s EXCEPT !.say_inside_menu = <<node>>], Resume(stk))
    ELSE Ok(write_say(s, node, FALSE), Resume(stk))

\* print_menu without "self.say_inside_menu = None"
print_menu_keeps_say(s, stk, node) ==
    LET s1 == [write(indent(s), "menu:") EXCEPT !.indent_level = @ + 1]
        s2 == IF s1.say_inside_menu # <<>>
              THEN write_say(s1, s1.say_inside_menu[1], TRUE)
              ELSE s1
        s3 == IF node.with_ # NONE THEN write(indent(s2), "with " \o node.with_) ELSE s2
        s4 == IF node.set # NONE THEN write(indent(s3), "set " \o node.set) ELSE s3
    IN  loop_run(s4, Push(stk, LoopFrame("menu", node.items, s4.indent_level)))

print_menu(s, stk, node) ==
    LET s1 == [write(indent(s), "menu:") EXCEPT !.indent_level = @ + 1]
        s2 == IF s1.say_inside_menu # <<>>
              THEN [write_say(s1, s1.say_inside_menu[1], TRUE)
                        EXCEPT !.say_inside_menu = <<>>]
              ELSE s1
        s3 == IF node.with_ # NONE THEN write(indent(s2), "with " \o node.with_) ELSE s2
        s4 == IF node.set # NONE THEN write(indent(s3), "set " \o node.set) ELSE s3
    IN  loop_run(s4, Push(stk, LoopFrame("menu", node.items, s4.indent_level)))

\* node.code.source is "\n" (when node.newline) followed by node.lines, the
\* logical lines split_logical_lines finds in it
print_python(s, stk, node, early) ==
    LET s1 == indent(s)
    IN  IF node.newline
        THEN LET s2 == write(s1, "python")
                 s3 == IF early THEN write(s2, " early") ELSE s2
                 s4 == IF node.hide THEN write(s3, " hide") ELSE s3
                 s5 == [write(s4, ":") EXCEPT !.indent_level = @ + 1]
                 s6 == write_lines(s5, node.lines)
             IN  Ok([s6 EXCEPT !.indent_level = @ - 1], Resume(stk))
        ELSE Ok(write(s1, "$ " \o Join(node.lines, "\n")), Resume(stk))

print_translatestring(s, stk, node) ==
    LET blk == Top(stk).block
        idx == Top(stk).index
        grouped == /\ idx # 0
                   /\ blk[idx].kind = "TranslateString"
                   /\ blk[idx].language = node.language
        s1 == IF ~grouped
              THEN write(indent(s), "translate " \o node.language \o " strings:")
              ELSE s
        s2 == [s1 EXCEPT !.indent_level = @ + 1]
        s3 == write(indent(s2), "old \"" \o string_escape(node.old) \o "\"")
        s4 == write(indent(s3), "new \"" \o string_escape(node.new) \o "\"")
    IN  Ok([s4 EXCEPT !.indent_level = @ - 1], Resume(stk))

-----------------------------------------------------------------------------
(* The inputs: Ren'Py AST nodes *)

With(expr, paired) == [kind |-> "With", expr |-> expr, paired |-> paired]
Show(imspec, atl) == [kind |-> "Show", imspec |-> imspec, atl |-> atl]
Scene(imspec, layer, atl) ==
    [kind |-> "Scene", imspec |-> imspec, layer |-> layer, atl |-> atl]
Hide(imspec) == [kind |-> "Hide", imspec |-> imspec]
ShowLayer(layer, at_list, atl) ==
    [kind |-> "ShowLayer", layer |-> layer, at_list |-> at_list, atl |-> atl]
While(condition, blk) == [kind |-> "While", condition |-> condition, block |-> blk]
Label(name, parameters, blk) ==
    [kind |-> "Label", name |-> name, parameters |-> parameters, block |-> blk]
Call(label, expression, arguments) ==
    [kind |-> "Call", label |-> label, expression |-> expression,
     arguments |-> arguments]
Pass == [kind |-> "Pass"]
If(entries) == [kind |-> "If", entries |-> entries]
RawBlock(loc, statements) ==
    [kind |-> "RawBlock", loc |-> loc, statements |-> statements]
RawTime(time) == [kind |-> "RawTime", time |-> time]
RawRepeat(repeats) == [kind |-> "RawRepeat", repeats |-> repeats]
RawChild(children) == [kind |-> "RawChild", children |-> children]
RawChoice(choices) == [kind |-> "RawChoice", choices |-> choices]
RawOn(handlers) == [kind |-> "RawOn", handlers |-> handlers]
RawParallel(blocks) == [kind |-> "RawParallel", blocks |-> blocks]
Say(who, what, interact, line) ==
    [kind |-> "Say", who |-> who, what |-> what, interact |-> interact,
     with_ |-> NONE, attributes |-> NONE, linenumber |-> line]
Menu(items, with_, line) ==
    [kind |-> "Menu", items |-> items, with_ |-> with_, set |-> NONE,
     linenumber |-> line]
Python(newline, lines, hide) ==
    [kind |-> "Python", newline |-> newline, lines |-> lines, hide |-> hide]
EarlyPython(newline, lines, hide) ==
    [kind |-> "EarlyPython", newline |-> newline, lines |-> lines, hide |-> hide]
Define(varname, line) ==
    [kind |-> "Define", store |-> "store", varname |-> varname, code |-> "1",
     linenumber |-> line]
Transform(varname, atl, line) ==
    [kind |-> "Transform", varname |-> varname, parameters |-> NONE, atl |-> atl,
     linenumber |-> line]
Image(imgname, code, atl, line) ==
    [kind |-> "Image", imgname |-> imgname, code |-> code, atl |-> atl,
     linenumber |-> line]
Style(style_name, properties, line) ==
    [kind |-> "Style", style_name |-> style_name, parent |-> "default",
     clear |-> FALSE, take |-> NONE, delattr |-> <<>>, variant |-> NONE,
     properties |-> properties, linenumber |-> line]
Screen(name, line) == [kind |-> "Screen", name |-> name, linenumber |-> line]
TranslateString(language, old, new, line) ==
    [kind |-> "TranslateString", language |-> language, old |-> old, new |-> new,
     linenumber |-> line]
InitBlock(priority, blk, line) ==
    [kind |-> "Init", priority |-> priority, block |-> blk, linenumber |-> line]

\* image specifiers: (name, expression, tag, at_list, layer, zorder, behind)
IM_plain ==
    [name |-> <<"eileen", "happy">>, expression |-> NONE, tag |-> NONE,
     at_list |-> <<>>, layer |-> "master", zorder |-> NONE, behind |-> <<>>]
IM_full ==
    [name |-> <<"bg">>, expression |-> NONE, tag |-> "b", at_list |-> <<"left ">>,
     layer |-> "fg", zorder |-> "1", behind |-> <<"eileen">>]

\* a recorded location of an ATL block
LOC == <<"game/script.rpy", 1>>
ATL_one == RawBlock(LOC, <<RawTime("1.0")>>)

-----------------------------------------------------------------------------
(* Bounds of the inputs *)

\* nodes of a flat block of display and with statements
MaxLen == 3
\* nodes of a flat block of chained with statements
MaxChain == 5
\* nodes of a tree of with/show/while statements
MaxNodes == 5
\* entries of an if statement
MaxEntries == 3
\* nested blocks of an ATL statement, choices of a menu
MaxItems == 2
\* nodes of a block of python and translation statements
MaxDecl == 2
\* nodes of a block of call, label, pass and say statements
MaxFlow == 3
\* nodes of a block of say, menu and pass statements
MaxTalk == 3
\* recorded line numbers
MaxLine == 2

\* the sequences over S of length lo..hi
FlatBlocks(S, lo, hi) == UNION {[1..k -> S] : k \in lo..hi}

\* the orders of a finite set
Perms(S) ==
    {f \in [1..Cardinality(S) -> S] : \A i, j \in 1..Cardinality(S) : i # j => f[i] # f[j]}

Lines == 1..MaxLine
SayLeaf == Say("e", "hi", TRUE, 1)

(* with and display statements *)
\* "show ... with dissolve" is With("None", paired="dissolve"), Show, With("dissolve")
WithNodes ==
    {With("None", "dissolve"), With("dissolve", NONE), With("fade", NONE),
     With("dissolve", "dissolve")}
DisplayNodes ==
    {Show(IM_plain, <<>>), Show(IM_full, <<ATL_one>>),
     Scene(<<>>, "master", <<>>), Scene(<<IM_full>>, "master", <<>>),
     Hide(IM_plain), ShowLayer("master", <<"shake">>, <<>>)}
WideInputs == FlatBlocks(WithNodes \cup DisplayNodes, 1, MaxLen)

ChainInputs ==
    FlatBlocks({With("None", "dissolve"), With("dissolve", NONE),
                With("dissolve", "dissolve"), Show(IM_plain, <<>>)}, 1, MaxChain)

CoreLeaves == {With("None", "dissolve"), With("dissolve", NONE), Show(IM_plain, <<>>)}

\* the blocks of exactly n nodes, nested blocks counted
RECURSIVE BlocksOfSize(_), NodesOfSize(_)
BlocksOfSize(n) ==
    IF n = 0 THEN {<<>>}
    ELSE UNION {{<<hd>> \o tl : hd \in NodesOfSize(k), tl \in BlocksOfSize(n - k)}
                    : k \in 1..n}
NodesOfSize(k) ==
    IF k = 1 THEN CoreLeaves
    ELSE {While("x", b) : b \in BlocksOfSize(k - 1)}
CoreInputs == UNION {BlocksOfSize(n) : n \in 1..MaxNodes}

(* if statements *)
Conds == {"x > 0", "True", " True "}
IfEntries ==
    {[condition |-> c, block |-> b] :
        c \in Conds,
        b \in {<<SayLeaf>>, <<If(<<[condition |-> "True", block |-> <<SayLeaf>>]>>)>>}}
IfInputs == {<<If(es)>> : es \in FlatBlocks(IfEntries, 1, MaxEntries)}

(* declarations and init blocks *)
PropItems == {[key |-> "color", value |-> "red"], [key |-> "size", value |-> "12"]}
PropDicts == (SUBSET PropItems) \ {{}}
Priorities == {0, -500, 990, 5}
DeclNodes ==
    UNION {{Define("x", l), Transform("t", <<>>, l), Transform("t", <<ATL_one>>, l),
            Style("s", <<>>, l), Screen("scr", l), Image(<<"img">>, "im", <<>>, l),
            TranslateString("fr", "a", "b", l)} : l \in Lines}
InitInputs ==
    {<<InitBlock(p, <<c>>, l)>> : p \in Priorities, c \in DeclNodes, l \in Lines}
    \cup {<<InitBlock(p, <<TranslateString("fr", "a", "b", 1), TranslateString(g, "c", "d", 2)>>, 1)>>
            : p \in {0, 5}, g \in {"fr", "en"}}
    \cup {<<InitBlock(0, <<Define("x", 1), Define("y", 2)>>, 1)>>}
DeclInputs ==
    FlatBlocks({Python(TRUE, <<"a = 1", "b = 2">>, FALSE), Python(FALSE, <<"x = 1">>, FALSE),
                EarlyPython(TRUE, <<"a = 1">>, TRUE),
                TranslateString("fr", "a", "b", 1), TranslateString("en", "c", "d", 2),
                Style("s", <<[key |-> "color", value |-> "red"]>>, 1)}, 1, MaxDecl)

(* ATL *)
AtlBlocks0 == {RawBlock(EMPTY_LOC, <<>>), RawBlock(LOC, <<>>), ATL_one}
AtlStatements ==
    {RawTime("1.0"), RawRepeat(NONE), RawRepeat("2")}
    \cup AtlBlocks0
    \cup {RawChild(c) : c \in FlatBlocks(AtlBlocks0, 1, MaxItems)}
    \cup {RawParallel(c) : c \in FlatBlocks(AtlBlocks0, 1, MaxItems)}
    \cup {RawChoice(c) : c \in FlatBlocks(
            {[chance |-> "1.0", block |-> b] : b \in AtlBlocks0}
                \cup {[chance |-> "2.0", block |-> ATL_one]}, 1, MaxItems)}
AtlBlocks == AtlBlocks0 \cup {RawBlock(LOC, <<st>>) : st \in AtlStatements}
AtlHosts(b) ==
    {Show(IM_plain, <<b>>), Scene(<<>>, "fg", <<b>>), ShowLayer("master", <<>>, <<b>>),
     Transform("t", <<b>>, 1), Image(<<"img">>, NONE, <<b>>, 1)}
AtlInputs == UNION {{<<h>> : h \in AtlHosts(b)} : b \in AtlBlocks}

(* say and menu *)
MenuItems ==
    {[label |-> "Yes", condition |-> "True", block |-> << <<SayLeaf>> >>],
     [label |-> "No", condition |-> "x", block |-> << <<SayLeaf>> >>],
     [label |-> "caption", condition |-> "True", block |-> <<>>]}
Menus ==
    {Menu(it, w, l) : it \in FlatBlocks(MenuItems, 1, MaxItems),
                      w \in {NONE, "dissolve"}, l \in Lines}
Says == {Say(who, "hi", i, l) : who \in {"e", NONE}, i \in BOOLEAN, l \in Lines}
MenuInputs == {<<m>> : m \in Menus} \cup {<<s, m>> : s \in Says, m \in Menus}

(* call, label, pass *)
\* "call sub from l" is Call, Label("l", block=[]), Pass
FlowNodes ==
    {Call("sub", FALSE, <<>>), Call("target", TRUE, << <<"1">> >>), Label("l", <<>>, <<>>),
     Pass, SayLeaf}
FlowBlocks == FlatBlocks(FlowNodes, 1, MaxFlow)
FlowInputs ==
    FlowBlocks
    \cup {<<Label("start", << <<"a">> >>, b)>> : b \in FlatBlocks(FlowNodes, 1, 2)}
    \cup {<<Show(IM_plain, <<>>), Label("start", <<>>, <<Pass>>), Pass>>}

(* dialogue around menus *)
\* "bye" is said only by a say without interaction, which a menu may take in
TalkNodes ==
    {Say("e", "hi", FALSE, 1), Say("e", "bye", FALSE, 2), Say("e", "hi", TRUE, 1),
     [Menu(<<[label |-> "Yes", condition |-> "True", block |-> << <<SayLeaf>> >>]>>,
           "dissolve", 2) EXCEPT !.set = "seen"],
     Menu(<<[label |-> "caption", condition |-> "True", block |-> <<>>],
            [label |-> "No", condition |-> "x", block |-> << <<SayLeaf>> >>]>>, NONE, 1),
     Pass}
TalkBlocks == FlatBlocks(TalkNodes, 1, MaxTalk)
TalkInputs ==
    TalkBlocks \cup {<<Label("start", <<>>, b)>> : b \in FlatBlocks(TalkNodes, 2, 2)}

(* unordered collections: two storage orders of one dict *)
StylePairs ==
    UNION {{<< <<Style("s", p, 1)>>, <<Style("s", q, 1)>> >> : p, q \in Perms(d)}
            : d \in PropDicts}
OnBlocks == {RawBlock(<<"game/script.rpy", l>>, <<RawTime("1.0")>>) : l \in Lines}
                \cup {RawBlock(EMPTY_LOC, <<>>)}
EventNames == {"show", "hide"}
\* the dicts over the event names: one block for each name of a non-empty set
OnDicts ==
    UNION {{ {[name |-> n, block |-> f[n]] : n \in ns} : f \in [ns -> OnBlocks]}
            : ns \in (SUBSET EventNames) \ {{}}}
OnTree(h) == <<Show(IM_plain, <<RawBlock(LOC, <<RawOn(h)>>)>>)>>
OnPairs == UNION {{<<OnTree(p), OnTree(q)>> : p, q \in Perms(d)} : d \in OnDicts}

OrderedInputs ==
    WideInputs \cup ChainInputs \cup CoreInputs \cup IfInputs \cup InitInputs \cup DeclInputs
        \cup AtlInputs \cup MenuInputs \cup FlowInputs
        \cup TalkInputs
UnorderedInputs == {pr[1] : pr \in StylePairs \cup OnPairs}
InputPairs == {<<t, t>> : t \in OrderedInputs} \cup StylePairs \cup OnPairs

-----------------------------------------------------------------------------
(* The render *)

NoErr == [type |-> "", args |-> <<>>]

\* pprint: a new Decompiler, then dump(ast) up to its call of print_nodes
Start(t, comparable) ==
    /\ self = NewDecompiler(comparable, 0)
    /\ stack = <<NodesFrame(t, 0, 0)>>
    /\ pc = "run"
    /\ err = NoErr

Init ==
    \E pr \in InputPairs, comparable \in BOOLEAN :
        /\ tree = pr[1]
        /\ twin = pr[2]
        /\ run = 1
        /\ prev = <<>>
        /\ Start(pr[1], comparable)

\* the handler returns or raises
Apply(r) ==
    /\ self' = r.s
    /\ stack' = r.stk
    /\ IF r.exc # <<>>
       THEN pc' = "error" /\ err' = r.exc[1]
       ELSE UNCHANGED <<pc, err>>
    /\ UNCHANGED <<tree, twin, run, prev>>

Dispatch(kind) == AtNode /\ ast.kind = kind

PrintWith == Dispatch("With") /\ Apply(print_with(self, stack, ast))
PrintShow == Dispatch("Show") /\ Apply(print_show(self, stack, ast))
PrintShowLayer == Dispatch("ShowLayer") /\ Apply(print_showlayer(self, stack, ast))
PrintScene == Dispatch("Scene") /\ Apply(print_scene(self, stack, ast))
PrintHide == Dispatch("Hide") /\ Apply(print_hide(self, stack, ast))
PrintIf == Dispatch("If") /\ Apply(print_if(self, stack, ast))
PrintWhile == Dispatch("While") /\ Apply(print_while(self, stack, ast))
PrintLabel == Dispatch("Label") /\ Apply(print_label(self, stack, ast))
PrintCall == Dispatch("Call") /\ Apply(print_call(self, stack, ast))
PrintPass == Dispatch("Pass") /\ Apply(print_pass(self, stack, ast))
PrintInit == Dispatch("Init") /\ Apply(print_init(self, stack, ast))
PrintMenu == Dispatch("Menu") /\ Apply(print_menu(self, stack, ast))
PrintSay == Dispatch("Say") /\ Apply(print_say(self, stack, ast))
PrintPython == Dispatch("Python") /\ Apply(print_python(self, stack, ast, FALSE))
PrintEarlyPython == Dispatch("EarlyPython") /\ Apply(print_python(self, stack, ast, TRUE))
PrintDefine == Dispatch("Define") /\ Apply(print_define(self, stack, ast))
PrintTransform == Dispatch("Transform") /\ Apply(print_transform(self, stack, ast))
PrintImage == Dispatch("Image") /\ Apply(print_image(self, stack, ast))
PrintStyle == Dispatch("Style") /\ Apply(print_style(self, stack, ast))
PrintScreen == Dispatch("Screen") /\ Apply(print_screen(self, stack, ast))
PrintTranslateString ==
    Dispatch("TranslateString") /\ Apply(print_translatestring(self, stack, ast))
PrintAtlRawBlock == Dispatch("RawBlock") /\ Apply(print_atl_rawblock(self, stack, ast))
PrintAtlRawChild == Dispatch("RawChild") /\ Apply(print_atl_rawchild(self, stack, ast))
PrintAtlRawChoice == Dispatch("RawChoice") /\ Apply(print_atl_rawchoice(self, stack, ast))
PrintAtlRawOn == Dispatch("RawOn") /\ Apply(print_atl_rawon(self, stack, ast))
PrintAtlRawParallel ==
    Dispatch("RawParallel") /\ Apply(print_atl_rawparallel(self, stack, ast))
PrintAtlRawRepeat == Dispatch("RawRepeat") /\ Apply(print_atl_rawrepeat(self, stack, ast))
PrintAtlRawTime == Dispatch("RawTime") /\ Apply(print_atl_rawtime(self, stack, ast))

AtEnd == pc = "run" /\ Len(stack) > 0 /\ Top(stack).kind = "nodes"
            /\ Top(stack).index = Len(Top(stack).block)

\* the end of DecompilerBase.print_nodes
print_nodes_return(s, stk) ==
    Ok([s EXCEPT !.indent_level = @ - Top(stk).extra], Resume(Pop(stk)))

\* a nested print_nodes returns to the handler that called it
PrintNodesReturn ==
    /\ AtEnd
    /\ Len(stack) > 1
    /\ Apply(print_nodes_return(self, stack))

\* the print_nodes of dump returns: dump ends the file with a newline
dump_return(s, stk) ==
    write_newline(print_nodes_return(s, stk).s)

DumpReturn ==
    /\ AtEnd
    /\ Len(stack) = 1
    /\ self' = dump_return(self, stack)
    /\ stack' = <<>>
    /\ pc' = "done"
    /\ UNCHANGED <<err, tree, twin, run, prev>>

\* the end of print_atl without its "self.indent_level -= 1"
print_atl_return_no_dedent(s, stk) ==
    Ok(s, Resume(Pop(stk)))

\* the end of print_atl, after print_nodes(ast.statements)
print_atl_return(s, stk) ==
    Ok([s EXCEPT !.indent_level = @ - 1], Resume(Pop(stk)))

PrintAtlReturn ==
    /\ pc = "run" /\ Len(stack) > 0 /\ Top(stack).kind = "atl"
    /\ Apply(print_atl_return(self, stack))

\* a handler's loop goes on after a nested block returned
LoopNext ==
    /\ pc = "run" /\ Len(stack) > 0 /\ Top(stack).kind = "loop"
    /\ Apply(loop_run(self, stack))

\* a second Decompiler renders the twin of a tree with unordered collections
Redump ==
    /\ pc = "done"
    /\ run = 1
    /\ tree \in UnorderedInputs
    /\ prev' = self.out
    /\ run' = 2
    /\ self' = NewDecompiler(self.comparable, 0)
    /\ stack' = <<NodesFrame(twin, 0, 0)>>
    /\ pc' = "run"
    /\ UNCHANGED <<err, tree, twin>>

Next ==
    \/ PrintWith \/ PrintShow \/ PrintShowLayer \/ PrintScene \/ PrintHide
    \/ PrintIf \/ PrintWhile \/ PrintLabel \/ PrintCall \/ PrintPass \/ PrintInit \/ PrintMenu \/ PrintSay
    \/ PrintPython \/ PrintEarlyPython \/ PrintDefine \/ PrintTransform
    \/ PrintImage \/ PrintStyle \/ PrintScreen \/ PrintTranslateString
    \/ PrintAtlRawBlock \/ PrintAtlRawChild \/ PrintAtlRawChoice \/ PrintAtlRawOn
    \/ PrintAtlRawParallel \/ PrintAtlRawRepeat \/ PrintAtlRawTime
    \/ PrintNodesReturn \/ DumpReturn \/ PrintAtlReturn \/ LoopNext \/ Redump

Spec == Init /\ [][Next]_vars

-----------------------------------------------------------------------------
(* Properties *)

InToks(x, q) == \E j \in 1..Len(q) : q[j] = x
LastTok(q) == q[Len(q)]

\* the output line the statement dispatched in this state is written on
StmtLine == IF self.skip_indent_until_write THEN Len(self.out) ELSE Len(self.out) + 1

\* positions k, k+1, k+2 of blk hold With(paired=A), Show, With(expr=A)
PairedShowAt(blk, k) ==
    /\ k >= 1 /\ k + 2 <= Len(blk)
    /\ blk[k].kind = "With" /\ blk[k].paired # NONE
    /\ blk[k + 1].kind = "Show"
    /\ blk[k + 2].kind = "With" /\ blk[k + 2].expr = blk[k].paired
    /\ blk[k + 2].paired = NONE

\* C1, the leading With: it raises nothing and writes nothing
C1Leading ==
    (AtNode /\ PairedShowAt(block, index + 1))
        => (pc' = "run" /\ self'.out = self.out)

\* C1, the Show: its line closes with the inline clause "with A", which only
\* the colon of an ATL block may follow
C1Show ==
    (AtNode /\ PairedShowAt(block, index))
        => LET toks == self'.out[StmtLine].toks
               clause == "with " \o block[index].paired
           IN  /\ pc' = "run"
               /\ toks[1] = "show "
               /\ IF ast.atl = <<>>
                  THEN LastTok(toks) = clause
                  ELSE LastTok(toks) = ":" /\ toks[Len(toks) - 1] = clause

\* C1, the trailing With: it writes nothing and leaves the register absent
C1Trailing ==
    (AtNode /\ PairedShowAt(block, index - 1))
        => /\ pc' = "run"
           /\ self'.out = self.out
           /\ self'.paired_with = PW_False

\* C1: in a block with the siblings With(paired=A), Show, With(expr=A) no node
\* of the three raises, the Show line carries the inline "with A" as its last
\* clause, the trailing With writes nothing (no standalone with line), and the
\* pairing register is absent once the trailing With has been visited.
C1_PairedShow == [][C1Leading /\ C1Show /\ C1Trailing]_vars

\* the trailing With of With(paired=A), Show, With(expr=A) has been visited
C1_Witness ==
    /\ pc = "run" /\ Len(stack) > 0 /\ Top(stack).kind = "nodes"
    /\ PairedShowAt(block, index - 2)
    /\ self.paired_with = PW_False

\* C2: a With(paired=A) whose sibling two places on is missing, is no With or
\* has another expression ends the render with the consistency error, whose
\* message reports the expected expression A and the expression found.
C2_ReportsExpectedActual ==
    pc = "error" =>
        LET f == Top(stack)
            node == f.block[f.index + 1]
        IN  /\ err.type = "Exception"
            /\ InToks(Repr(node.paired), err.args)
            /\ (f.index + 3 <= Len(f.block) /\ f.block[f.index + 3].kind = "With")
                   => InToks(Repr(f.block[f.index + 3].expr), err.args)

Armed == self.paired_with.tag = "str"

\* a display statement of the given kinds, dispatched while the register is
\* armed, writes the inline clause on its line and marks the register consumed
ConsumesArmed(kinds) ==
    (AtNode /\ ast.kind \in kinds /\ Armed)
        => /\ InToks("with " \o self.paired_with.val, self'.out[StmtLine].toks)
           /\ self'.paired_with = PW_True

\* C10 as stated: show, scene, hide and show layer each consume an armed
\* register: the statement writes "with <expr>" inline and marks it consumed.
C10_AllDisplayConsume == [][ConsumesArmed({"Show", "Scene", "Hide", "ShowLayer"})]_vars

\* a hide or show layer statement leaves the register as it is and writes no
\* with clause
C10Passes ==
    (AtNode /\ ast.kind \in {"Hide", "ShowLayer"} /\ Armed)
        => /\ self'.paired_with = self.paired_with
           /\ ~InToks("with " \o self.paired_with.val, self'.out[StmtLine].toks)

\* an unpaired With writes nothing after a consumed register, and appends its
\* own " with <expr>" to the current line after an armed one
C10Trailing ==
    (AtNode /\ ast.kind = "With" /\ ast.paired = NONE /\ Truthy(self.paired_with))
        => /\ self'.paired_with = PW_False
           /\ IF self.paired_with = PW_True
              THEN self'.out = self.out
              ELSE self'.out = write(self, " with " \o ast.expr).out

\* C10, amended: a show or scene statement dispatched while the register is
\* armed writes "with <expr>" inline and marks the register consumed, and the
\* trailing With then writes nothing; a hide or show layer statement leaves
\* the register armed and writes no clause, and the trailing With then appends
\* " with <expr>" to the current line itself.
C10_ShowSceneConsume ==
    [][ConsumesArmed({"Show", "Scene"}) /\ C10Passes /\ C10Trailing]_vars

\* a scene statement has just consumed the armed register
C10_Witness ==
    /\ AtNode /\ index >= 2
    /\ block[index].kind = "Scene"
    /\ block[index - 1].kind = "With" /\ block[index - 1].paired # NONE
    /\ self.paired_with = PW_True

\* the tree is one show statement whose ATL block is one "on" statement
IsOnTree(t) ==
    /\ Len(t) = 1 /\ t[1].kind = "Show" /\ t[1].atl # <<>>
    /\ Len(t[1].atl[1].statements) = 1
    /\ t[1].atl[1].statements[1].kind = "RawOn"

\* C3: with comparable=true no banner is written, and two structurally equal
\* trees that differ only in the storage order of a Style's property dict or
\* of an "on" statement's handler dict (or not at all) render to the same
\* output.
C3_ComparableDeterministic ==
    self.comparable =>
        /\ ~InToks(BANNER, self.out[1].toks)
        /\ (pc = "done" /\ run = 2) => prev = self.out

\* C4: under comparable=true the handlers of an "on" statement are rendered in
\* ascending order of their blocks' recorded lines, and the rendered text is
\* the same for every storage order of the handler dict.
C4_OnHandlersSorted ==
    self.comparable =>
        /\ \A k \in 1..Len(stack) :
               (stack[k].kind = "loop" /\ stack[k].what = "on") =>
                   \A j \in 1..(Len(stack[k].items) - 1) :
                       stack[k].items[j].block.loc[2] <= stack[k].items[j + 1].block.loc[2]
        /\ (pc = "done" /\ run = 2 /\ IsOnTree(tree)) => prev = self.out

\* C5: whenever control is back in a block, in a handler's loop over nested
\* blocks or at the end of print_atl, the indentation depth is the depth that
\* code started at: every statement block, menu body, python body, style body,
\* translation entry and ATL block rendered in between has restored it; at the
\* end of a render the depth is the initial indent_level.
C5_DepthRestored ==
    /\ (pc = "run" /\ Len(stack) > 0) => self.indent_level = Top(stack).depth
    /\ pc = "done" => self.indent_level = 0

\* a menu with a nested choice block has been rendered
C5_Witness ==
    /\ pc = "done" /\ tree[1].kind = "Menu"
    /\ \E j \in 1..Len(self.out) : self.out[j].ind = 2
    /\ self.indent_level = 0

\* the header C6 states for entry i (from 0) of the entries of an if statement
C6Header(entries, i) ==
    LET c == entries[i + 1].condition
    IN  IF i = 0 THEN "if " \o c \o ":"
        ELSE IF i + 1 = Len(entries) /\ c = "True" THEN "else:"
        ELSE "elif " \o c \o ":"

C6Entry(entries, i) ==
    /\ LastTok(self'.out[StmtLine].toks) = C6Header(entries, i)
    /\ self'.indent_level = self.indent_level + 1
    /\ Top(stack').kind = "nodes" /\ Top(stack').block = entries[i + 1].block

\* C6: the first entry of an if statement is rendered as "if <cond>:", every
\* later entry as "elif <cond>:", but the last as "else:" when its condition is
\* literally "True"; each branch block is rendered one level deeper.  Every
\* chain starts with an if line.
C6_IfChain ==
    [][/\ (AtNode /\ ast.kind = "If") => C6Entry(ast.entries, 0)
       /\ (pc = "run" /\ Len(stack) > 0 /\ Top(stack).kind = "loop"
             /\ Top(stack).what = "if" /\ Top(stack).i < Len(Top(stack).items))
            => C6Entry(Top(stack).items, Top(stack).i)]_vars

\* an init block of a default priority around one declaration of its kind
Wrapped(node) ==
    /\ Len(node.block) = 1
    /\ \/ node.priority = 0 /\ node.block[1].kind \in {"Define", "Transform", "Style"}
       \/ node.priority = -500 /\ node.block[1].kind = "Screen"
       \/ node.priority = 990 /\ node.block[1].kind = "Image"

\* print_init writes nothing and hands the child to print_nodes at this depth
OnlyChild ==
    /\ self'.out = self.out
    /\ self'.skip_indent_until_write = self.skip_indent_until_write
    /\ self'.indent_level = self.indent_level
    /\ Top(stack').kind = "nodes" /\ Top(stack').block = ast.block

\* print_init writes the init statement
Explicit == InToks("init", self'.out[StmtLine].toks)

\* C7 as stated: the wrapper is dropped, except that under comparable=true it
\* is kept when its recorded line is later than the child's.
C7_KeptWhenLater ==
    [][(AtNode /\ ast.kind = "Init" /\ Wrapped(ast))
         => IF self.comparable /\ ast.linenumber > ast.block[1].linenumber
            THEN Explicit
            ELSE OnlyChild]_vars

\* C7, amended: an Init of priority 0 around one Define/Transform/Style
\* (-500 around one Screen, 990 around one Image) renders only the child, with
\* no init text, except that under comparable=true the explicit init form is
\* kept when the wrapper's recorded line is earlier than the child's.
C7_KeptWhenEarlier ==
    [][(AtNode /\ ast.kind = "Init" /\ Wrapped(ast))
         => IF self.comparable /\ ast.linenumber < ast.block[1].linenumber
            THEN Explicit
            ELSE OnlyChild]_vars

\* under comparable=true a default-priority wrapper recorded before its
\* child has been written as "init:"
C7_Witness ==
    /\ pc = "run" /\ Len(stack) = 2 /\ self.comparable
    /\ stack[1].block[1].kind = "Init" /\ Wrapped(stack[1].block[1])
    /\ stack[1].block[1].linenumber < stack[1].block[1].block[1].linenumber
    /\ self.out[1].toks = <<"init", ":">>

\* the nested ATL blocks of a sequence of ATL statements
RECURSIVE SubBlocks(_)
SubBlocks(statements) ==
    IF Len(statements) = 0 THEN <<>>
    ELSE LET st == Head(statements)
             here == CASE st.kind = "RawBlock" -> <<st>>
                       [] st.kind = "RawChild" -> st.children
                       [] st.kind = "RawParallel" -> st.blocks
                       [] st.kind = "RawChoice" ->
                            [k \in 1..Len(st.choices) |-> st.choices[k].block]
                       [] st.kind = "RawOn" ->
                            [k \in 1..Len(st.handlers) |-> st.handlers[k].block]
                       [] OTHER -> <<>>
         IN  here \o SubBlocks(Tail(statements))

\* the pass lines stated for ATL block b: one for each block without
\* statements in it, none for one at the empty-block location when "silent"
RECURSIVE StatedPass(_, _), StatedPassIn(_, _)
StatedPass(b, silent) ==
    IF Len(b.statements) = 0
    THEN IF silent /\ b.loc = EMPTY_LOC THEN 0 ELSE 1
    ELSE StatedPassIn(SubBlocks(b.statements), silent)
StatedPassIn(blocks, silent) ==
    IF Len(blocks) = 0 THEN 0
    ELSE StatedPass(Head(blocks), silent) + StatedPassIn(Tail(blocks), silent)

PassLines == {k \in 1..Len(self.out) : self.out[k].toks = <<"pass">>}

\* the tree is one statement with an ATL block
IsAtlTree(t) ==
    /\ Len(t) = 1
    /\ t[1].kind \in {"Show", "Scene", "ShowLayer", "Transform", "Image"}
    /\ t[1].atl # <<>>

\* the pass lines of a rendered ATL tree: as many as stated, each one level
\* deeper than the header line before it
PassAsStated(silent) ==
    (pc = "done" /\ IsAtlTree(tree)) =>
        /\ Cardinality(PassLines) = StatedPass(tree[1].atl[1], silent)
        /\ \A k \in PassLines : k > 1 /\ self.out[k].ind = self.out[k - 1].ind + 1

\* C8 as stated: in both modes an ATL block without statements renders one
\* pass line at depth+1 unless its location is ('', 0), when it renders
\* nothing; a block with statements gets no pass line of its own.
C8_PassBothModes == PassAsStated(TRUE)

\* C8, amended: under comparable=true an ATL block without statements renders
\* one pass line at depth+1 unless its location is ('', 0), when it renders
\* nothing; under comparable=false it renders one pass line at depth+1
\* whatever its location; a block with statements gets no pass line of its own.
C8_PassComparable == PassAsStated(self.comparable)

\* under comparable=true a show statement whose ATL block is the empty
\* placeholder has been rendered without a pass line
C8_Witness ==
    /\ pc = "done" /\ self.comparable /\ IsAtlTree(tree)
    /\ tree[1].atl[1] = RawBlock(EMPTY_LOC, <<>>)
    /\ PassLines = {}

\* the node dispatched in this state has a Call as the sibling just before it
AfterCall == index > 0 /\ block[index].kind = "Call"

\* C11, a Label after a Call: " from <name>" is appended to the call's line,
\* no line is added and no nested block is opened
C11Label ==
    (AtNode /\ ast.kind = "Label" /\ AfterCall)
        => LET n == Len(self.out)
           IN  /\ pc' = "run"
               /\ self.out[n].toks[1] = "call "
               /\ self'.out = [self.out EXCEPT ![n].toks = Append(@, " from " \o ast.name)]
               /\ Len(stack') = Len(stack)
               /\ Top(stack').index = index + 1

\* C11, a Pass after a Call: nothing is written
C11PassAfterCall ==
    (AtNode /\ ast.kind = "Pass" /\ AfterCall)
        => (pc' = "run" /\ self'.out = self.out)

\* C11, a Pass anywhere else: one line "pass" at the depth of its block
C11PassElsewhere ==
    (AtNode /\ ast.kind = "Pass" /\ ~AfterCall)
        => /\ pc' = "run"
           /\ Len(self'.out) = StmtLine
           /\ self'.out[StmtLine] = [ind |-> Top(stack).depth, toks |-> <<"pass">>]
           /\ \A k \in 1..(StmtLine - 1) : self'.out[k] = self.out[k]

\* C11: a Label whose preceding sibling is a Call renders only " from <name>"
\* appended to the call's line (no label line, nothing else); a Pass whose
\* preceding sibling is a Call renders nothing; a Pass in any other position
\* (first in its block, or after any node that is no Call, the Label of a
\* "call ... from" pair included) renders a pass line.
C11_CallFromPass == [][C11Label /\ C11PassAfterCall /\ C11PassElsewhere]_vars

\* Call, Label, Pass have been rendered: the call's line ends with the from
\* clause and the Pass after the Label has its own pass line
C11_Witness ==
    /\ pc = "run" /\ Len(stack) > 0 /\ Top(stack).kind = "nodes"
    /\ index >= 3
    /\ block[index - 2].kind = "Call"
    /\ block[index - 1].kind = "Label"
    /\ block[index].kind = "Pass"
    /\ LET n == Len(self.out)
       IN  /\ self.out[n].toks = <<"pass">>
           /\ LastTok(self.out[n - 1].toks) = " from " \o block[index - 1].name
           /\ self.out[n - 1].toks[1] = "call "

\* the Say nodes of a block, nested blocks included, that say the text w
RECURSIVE SaysIn(_, _), SaysInEntries(_, _), SaysInItems(_, _)
SaysIn(blk, w) ==
    IF Len(blk) = 0 THEN 0
    ELSE LET n == Head(blk)
             here == IF n.kind = "Say" THEN (IF n.what = w THEN 1 ELSE 0)
                     ELSE IF n.kind \in {"While", "Label", "Init"} THEN SaysIn(n.block, w)
                     ELSE IF n.kind = "If" THEN SaysInEntries(n.entries, w)
                     ELSE IF n.kind = "Menu" THEN SaysInItems(n.items, w)
                     ELSE 0
         IN  here + SaysIn(Tail(blk), w)
SaysInEntries(es, w) ==
    IF Len(es) = 0 THEN 0 ELSE SaysIn(Head(es).block, w) + SaysInEntries(Tail(es), w)
SaysInItems(its, w) ==
    IF Len(its) = 0 THEN 0
    ELSE (IF Head(its).block = <<>> THEN 0 ELSE SaysIn(Head(its).block[1], w))
            + SaysInItems(Tail(its), w)

\* the texts the Say nodes of the inputs say
Texts == {"hi", "bye"}
Quoted(w) == "\"" \o w \o "\""
SayLines(w) == {k \in 1..Len(self.out) : InToks(Quoted(w), self.out[k].toks)}
Rendered == IF run = 1 THEN tree ELSE twin

\* C12, the count: a finished render has one line for each Say node
C12Once ==
    pc = "done" =>
        \A w \in Texts : Cardinality(SayLines(w)) = SaysIn(Rendered, w)

\* C12, the register: a say is pending only while the Menu right after it is
\* the node about to be dispatched
C12Pending ==
    self.say_inside_menu # <<>> =>
        /\ AtNode /\ ast.kind = "Menu"
        /\ index > 0 /\ block[index] = self.say_inside_menu[1]

\* C12, the deferring Say: it writes nothing
C12Defer ==
    (AtNode /\ ast.kind = "Say" /\ self'.say_inside_menu # <<>>)
        => (self'.out = self.out /\ self'.say_inside_menu = <<ast>>)

\* C12, the Menu after a deferred Say: the say is the first line of the menu
\* body, one level deeper than "menu:", without nointeract, before the with
\* and set lines, and the register is cleared
C12Menu ==
    (AtNode /\ ast.kind = "Menu" /\ self.say_inside_menu # <<>>)
        => LET say == self.say_inside_menu[1]
               d == Top(stack).depth
               m == StmtLine
           IN  /\ self'.say_inside_menu = <<>>
               /\ self'.out[m] = [ind |-> d, toks |-> <<"menu:">>]
               /\ self'.out[m + 1] =
                      [ind |-> d + 1, toks |-> <<say.who \o " ", Quoted(say.what)>>]
               /\ ast.with_ # NONE =>
                      self'.out[m + 2] = [ind |-> d + 1, toks |-> <<"with " \o ast.with_>>]
               /\ ast.set # NONE =>
                      self'.out[m + (IF ast.with_ # NONE THEN 3 ELSE 2)]
                          = [ind |-> d + 1, toks |-> <<"set " \o ast.set>>]

\* C12: every Say node of the tree is rendered exactly once; a Say that
\* defers itself writes nothing and is rendered by the Menu right after it as
\* the first line of the menu body (depth+1, no nointeract, before the menu's
\* with, set and choice lines), which clears the register; the register is
\* empty whenever another node is dispatched and at the end of the render.
C12_SayOnce == [](C12Once /\ C12Pending) /\ [][C12Defer /\ C12Menu]_vars

\* a render has finished in which a menu took in the say before it
C12_Witness ==
    /\ pc = "done"
    /\ \E k \in 1..(Len(self.out) - 1) :
          /\ self.out[k].toks = <<"menu:">>
          /\ self.out[k + 1] = [ind |-> self.out[k].ind + 1, toks |-> <<"e ", Quoted("bye")>>]

\* the inline with clauses a show or scene statement can write: one per
\* expression of the inputs, and one per marker of the register
Markers == {"True", "False"}
InlineClauses == {"with " \o e : e \in {"dissolve", "fade", "None"} \cup Markers}
HasInlineWith(toks) == \E j \in 1..Len(toks) : toks[j] \in InlineClauses

\* C13, a show or scene while the register is absent or consumed: no with
\* clause on its line, the register as it was
C13Quiet ==
    (AtNode /\ ast.kind \in {"Show", "Scene"} /\ self.paired_with.tag # "str")
        => /\ ~HasInlineWith(self'.out[StmtLine].toks)
           /\ self'.paired_with = self.paired_with

\* C13, a show or scene while the register is armed: the clause on its line
\* carries the armed expression
C13Armed ==
    (AtNode /\ ast.kind \in {"Show", "Scene"} /\ self.paired_with.tag = "str")
        => LET toks == self'.out[StmtLine].toks
           IN  \A j \in 1..Len(toks) :
                   toks[j] \in InlineClauses => toks[j] = "with " \o self.paired_with.val

\* C13, the consumed marker is never part of the output
C13NoMarker ==
    \A k \in 1..Len(self.out) : \A j \in 1..Len(self.out[k].toks) :
        self.out[k].toks[j] \notin {"with " \o m : m \in Markers}

\* C13: every inline with clause of a show or scene carries the expression
\* of a register that is armed at that moment; a show or scene rendered while
\* the register is absent or consumed writes no with clause and leaves the
\* register unchanged, so one armed register gives at most one inline with
\* clause however many show or scene statements come before the trailing
\* With, and the consumed marker is never written.
C13_InlineWithOnlyWhenArmed == []C13NoMarker /\ [][C13Quiet /\ C13Armed]_vars
====
